---- MODULE Spec2Model ----
(***************************************************************************)
(* Model of lib/utils.py: the CUDA free-memory prober cuda_devices() with  *)
(* its lru_cache wrapper, and the batch helpers pad() / collate_fn().      *)
(*                                                                         *)
(* cuda_devices() is modelled one native call per step.  The driver is the *)
(* environment: every native call returns a status drawn from Statuses,    *)
(* cuGetErrorString fills the error pointer, nulls it or leaves it alone,  *)
(* and cuMemGetInfo reports a pair drawn from MemReadings.                 *)
(***************************************************************************)
EXTENDS Integers, Sequences, FiniteSets, TLC

\* ---------------------------------------------------------------- bounds
MaxDevices == 4          \* largest device count the driver reports
MaxCalls == 2            \* calls of cuda_devices() in one process
MaxBatch == 3            \* rows in a batch handed to pad / collate_fn
MaxRowLen == 2           \* longest row in a batch

\* ------------------------------------------------------------- constants
CUDA_SUCCESS == 0
PADDING_INDEX == 0

LibNames == <<"libcuda.so", "libcuda.dylib", "cuda.dll">>

\* Status codes a native call may return: success, or one of two non-success
\* codes (one the driver has a message for, one it does not recognise).
Statuses == {CUDA_SUCCESS, 1, 999}

\* What cuGetErrorString does with the c_char_p it is handed.
ErrOutcomes == {"filled", "nulled", "untouched"}

\* <<free_bytes, total_bytes>> pairs cuMemGetInfo may report.
MemReadings == {<<0, 0>>, <<10, 50>>, <<49, 50>>, <<99, 100>>}

NoLib == "None"
NULL == "NULL"

DeviceFuncs == {"cuDeviceGet", "cuCtxCreate", "cuMemGetInfo", "cuCtxDetach"}

\* ------------------------------------------------------------- variables
VARIABLES
    pc,            \* position inside cuda_devices(), "idle" between calls
    cache,         \* lru_cache(maxsize=1) slot: <<>> or <<[id, val]>>
    cuda,          \* loaded library (its name) or NoLib
    libIdx,        \* index of the candidate name being tried
    result,        \* outer `result` (only ever bound to cuInit's status)
    num_gpu, i, ret, retId,
    error,         \* c_char_p: NULL or "str"
    free_memory, total_memory,
    context,       \* c_void_p: handle of the last created context, 0 = NULL
    device,        \* c_int: device handle
    liveCtx,       \* driver side: contexts this scan created and has not
                   \* detached (handles)
    callNo,        \* number of calls of cuda_devices() started
    history,       \* per finished call: how it ended and what it returned
    invoked,       \* native functions invoked by the current call
    loaded,        \* library names the current call tried to load
    failed,        \* last scan: devices with a failed per-device call
    queried,       \* last scan: <<dev, free, total>> of successful queries
    visited,       \* last scan: devices the loop body was entered for
    batch, padded, lengths, padpc

progVars == <<pc, cache, cuda, libIdx, result, num_gpu, i, ret, retId, error,
              free_memory, total_memory, context, device>>
drvVars == <<liveCtx>>
obsVars == <<callNo, history, invoked, loaded, failed, queried, visited>>
padVars == <<batch, padded, lengths, padpc>>
vars == <<progVars, drvVars, obsVars, padVars>>

\* ------------------------------------------------------- pure helpers

\* utils.py:115,118  float(free) / total > 0.98.  The literal 0.98 is the
\* double just below 49/50 and division is correctly rounded and monotone,
\* so for byte counts below 2^53 the test is exactly free/total > 49/50.
IsAvailableGE(free, total) == free * 50 >= total * 49
IsAvailable(free, total) == free * 50 > total * 49

PrependDevice(r, d) == <<d>> \o r
AppendDevice(r, d) == Append(r, d)

\* The handle cuCtxCreate writes for a context on device d: opaque, never
\* NULL, one per device within a scan.
CtxHandle(d) == d + 1

\* run(): what the nonlocal `error` holds after cuGetErrorString.
ErrorAfter(err, eo) ==
    CASE eo = "filled" -> "str"
      [] eo = "nulled" -> NULL
      [] OTHER -> err

Range(s) == {s[k] : k \in 1..Len(s)}

\* ------------------------------------------------------------------ Init
PadInit ==
    /\ batch = <<>>
    /\ padded = <<>>
    /\ lengths = <<>>
    /\ padpc = "off"

Init ==
    /\ pc = "idle"
    /\ cache = <<>>
    /\ cuda = NoLib
    /\ libIdx = 1
    /\ result = CUDA_SUCCESS
    /\ num_gpu = 0
    /\ i = 0
    /\ ret = <<>>
    /\ retId = 0
    /\ error = NULL
    /\ free_memory = 0
    /\ total_memory = 0
    /\ context = 0
    /\ device = 0
    /\ liveCtx = {}
    /\ callNo = 0
    /\ history = <<>>
    /\ invoked = {}
    /\ loaded = <<>>
    /\ failed = {}
    /\ queried = {}
    /\ visited = <<>>
    /\ PadInit

\* ------------------------------------------------- how a call can end

\* `return ret`: lru_cache stores the returned object.
Returns(inv) ==
    /\ pc' = "idle"
    /\ cache' = <<[id |-> retId, val |-> ret']>>
    /\ history' = Append(history, [outcome |-> "returned", id |-> retId,
                                   val |-> ret', native |-> inv # {}])

\* An exception leaves the frame; lru_cache stores nothing.
Raises(exc, inv) ==
    /\ pc' = "idle"
    /\ cache' = cache
    /\ history' = Append(history, [outcome |-> exc, id |-> 0,
                                   val |-> <<>>, native |-> inv # {}])

\* ----------------------------------------------------------- the actions

\* lru_cache wrapper, hit: the stored object is handed back.
CallHit ==
    /\ pc = "idle"
    /\ callNo < MaxCalls
    /\ cache # <<>>
    /\ callNo' = callNo + 1
    /\ history' = Append(history, [outcome |-> "returned", id |-> cache[1].id,
                                   val |-> cache[1].val, native |-> FALSE])
    /\ invoked' = {}
    /\ loaded' = <<>>
    /\ UNCHANGED <<progVars, drvVars, failed, queried, visited, padVars>>

\* lru_cache wrapper, miss: the body runs; lines 67 and 79-85.
CallMiss ==
    /\ pc = "idle"
    /\ callNo < MaxCalls
    /\ cache = <<>>
    /\ callNo' = callNo + 1
    /\ pc' = "load"
    /\ cuda' = NoLib
    /\ libIdx' = 1
    /\ result' = CUDA_SUCCESS
    /\ num_gpu' = 0
    /\ i' = 0
    /\ ret' = <<>>
    /\ retId' = callNo + 1
    /\ error' = NULL
    /\ free_memory' = 0
    /\ total_memory' = 0
    /\ context' = 0
    /\ device' = 0
    /\ invoked' = {}
    /\ loaded' = <<>>
    /\ failed' = {}
    /\ queried' = {}
    /\ visited' = <<>>
    /\ liveCtx' = {}
    /\ UNCHANGED <<cache, history, padVars>>

\* Lines 68-74: one iteration of the library probing loop.
LoadLib ==
    /\ pc = "load"
    /\ loaded' = Append(loaded, LibNames[libIdx])
    /\ \E ok \in BOOLEAN :
         IF ok
         THEN /\ cuda' = LibNames[libIdx]
              /\ pc' = "checkcuda"
              /\ libIdx' = libIdx
         ELSE /\ cuda' = cuda
              /\ IF libIdx < Len(LibNames)
                 THEN /\ libIdx' = libIdx + 1
                      /\ pc' = "load"
                 ELSE /\ libIdx' = libIdx
                      /\ pc' = "checkcuda"
    /\ UNCHANGED <<cache, result, num_gpu, i, ret, retId, error, free_memory,
                   total_memory, context, device, drvVars, callNo, history,
                   invoked, failed, queried, visited, padVars>>

CheckCudaNoGuard ==
    /\ pc = "checkcuda"
    /\ pc' = "init"
    /\ UNCHANGED <<cache, history, ret>>
    /\ UNCHANGED <<cuda, libIdx, result, num_gpu, i, retId, error, free_memory,
                   total_memory, context, device, drvVars, callNo,
                   invoked, loaded, failed, queried, visited, padVars>>

\* Lines 98-99: if not cuda: return ret.
CheckCuda ==
    /\ pc = "checkcuda"
    /\ IF cuda = NoLib
       THEN /\ ret' = ret
            /\ Returns(invoked)
       ELSE /\ pc' = "init"
            /\ UNCHANGED <<cache, history, ret>>
    /\ UNCHANGED <<cuda, libIdx, result, num_gpu, i, retId, error, free_memory,
                   total_memory, context, device, drvVars, callNo,
                   invoked, loaded, failed, queried, visited, padVars>>

\* Line 101: result = cuda.cuInit(0); the status is stored and not tested.
CuInit ==
    /\ pc = "init"
    /\ \E st \in Statuses : result' = st
    /\ invoked' = invoked \cup {"cuInit"}
    /\ pc' = "count"
    /\ UNCHANGED <<cache, cuda, libIdx, num_gpu, i, ret, retId, error,
                   free_memory, total_memory, context, device, drvVars,
                   callNo, history, loaded, failed, queried, visited, padVars>>

\* Lines 104-105: run(result, cuda.cuDeviceGetCount, byref(num_gpu)).
DeviceGetCount ==
    /\ pc = "count"
    /\ \E st \in Statuses :
         IF st = CUDA_SUCCESS
         THEN /\ \E n \in 0..MaxDevices : num_gpu' = n
              /\ invoked' = invoked \cup {"cuDeviceGetCount"}
              /\ pc' = "loop"
              /\ UNCHANGED <<error, ret, cache, history>>
         ELSE /\ num_gpu' = num_gpu
              /\ invoked' = invoked \cup {"cuDeviceGetCount", "cuGetErrorString"}
              /\ ret' = ret
              /\ \E eo \in ErrOutcomes :
                   /\ error' = ErrorAfter(error, eo)
                   /\ IF error' = NULL
                      THEN Raises("AttributeError", invoked')
                      ELSE Returns(invoked')
    /\ UNCHANGED <<cuda, libIdx, result, i, retId, free_memory, total_memory,
                   context, device, drvVars, callNo, loaded, failed, queried,
                   visited, padVars>>

\* Lines 107, 124: the for loop's next(), and the return after the loop.
LoopHead ==
    /\ pc = "loop"
    /\ IF i < num_gpu
       THEN /\ pc' = "get1"
            /\ visited' = Append(visited, i)
            /\ UNCHANGED <<cache, history, ret>>
       ELSE /\ visited' = visited
            /\ ret' = ret
            /\ Returns(invoked)
    /\ UNCHANGED <<cuda, libIdx, result, num_gpu, i, retId, error, free_memory,
                   total_memory, context, device, drvVars, callNo, invoked,
                   loaded, failed, queried, padVars>>

\* Lines 108 and 109: run(result, cuda.cuDeviceGet, byref(device), i), twice.
DeviceGet(here, next) ==
    /\ pc = here
    /\ \E st \in Statuses :
         IF st = CUDA_SUCCESS
         THEN /\ device' = i
              /\ invoked' = invoked \cup {"cuDeviceGet"}
              /\ pc' = next
              /\ UNCHANGED <<error, i, failed, cache, history>>
         ELSE /\ device' = device
              /\ invoked' = invoked \cup {"cuDeviceGet", "cuGetErrorString"}
              /\ failed' = failed \cup {i}
              /\ \E eo \in ErrOutcomes :
                   /\ error' = ErrorAfter(error, eo)
                   /\ IF error' = NULL
                      THEN /\ Raises("AttributeError", invoked')
                           /\ i' = i
                      ELSE /\ pc' = "loop"
                           /\ i' = i + 1
                           /\ UNCHANGED <<cache, history>>
    /\ UNCHANGED <<cuda, libIdx, result, num_gpu, ret, retId, free_memory,
                   total_memory, context, drvVars, callNo, loaded, queried,
                   visited, padVars>>

DeviceGet1 == DeviceGet("get1", "get2")
DeviceGet2 == DeviceGet("get2", "ctx")

\* Line 110: run(result, cuda.cuCtxCreate, byref(context), 0, device).
CtxCreate ==
    /\ pc = "ctx"
    /\ \E st \in Statuses :
         IF st = CUDA_SUCCESS
         THEN /\ context' = CtxHandle(device)
              /\ liveCtx' = liveCtx \cup {CtxHandle(device)}
              /\ invoked' = invoked \cup {"cuCtxCreate"}
              /\ pc' = "mem"
              /\ UNCHANGED <<error, i, failed, cache, history>>
         ELSE /\ UNCHANGED <<context, liveCtx>>
              /\ invoked' = invoked \cup {"cuCtxCreate", "cuGetErrorString"}
              /\ failed' = failed \cup {i}
              /\ \E eo \in ErrOutcomes :
                   /\ error' = ErrorAfter(error, eo)
                   /\ IF error' = NULL
                      THEN /\ Raises("AttributeError", invoked')
                           /\ i' = i
                      ELSE /\ pc' = "loop"
                           /\ i' = i + 1
                           /\ UNCHANGED <<cache, history>>
    /\ UNCHANGED <<cuda, libIdx, result, num_gpu, ret, retId, free_memory,
                   total_memory, device, callNo, loaded, queried, visited,
                   padVars>>

\* Lines 111-113: run(result, cuda.cuMemGetInfo, byref(free), byref(total));
\* a failure takes the `continue`, which skips line 122.
MemGetInfo ==
    /\ pc = "mem"
    /\ \E st \in Statuses :
         IF st = CUDA_SUCCESS
         THEN /\ \E m \in MemReadings :
                   /\ free_memory' = m[1]
                   /\ total_memory' = m[2]
                   /\ queried' = queried \cup {<<i, m[1], m[2]>>}
              /\ invoked' = invoked \cup {"cuMemGetInfo"}
              /\ pc' = "percent"
              /\ UNCHANGED <<error, i, failed, cache, history>>
         ELSE /\ UNCHANGED <<free_memory, total_memory, queried>>
              /\ invoked' = invoked \cup {"cuMemGetInfo", "cuGetErrorString"}
              /\ failed' = failed \cup {i}
              /\ \E eo \in ErrOutcomes :
                   /\ error' = ErrorAfter(error, eo)
                   /\ IF error' = NULL
                      THEN /\ Raises("AttributeError", invoked')
                           /\ i' = i
                      ELSE /\ pc' = "loop"
                           /\ i' = i + 1
                           /\ UNCHANGED <<cache, history>>
    /\ UNCHANGED <<cuda, libIdx, result, num_gpu, ret, retId, context, device,
                   drvVars, callNo, loaded, visited, padVars>>

\* Lines 115-120: the division and the threshold test.
CheckFree ==
    /\ pc = "percent"
    /\ IF total_memory = 0
       THEN /\ Raises("ZeroDivisionError", invoked)
            /\ ret' = ret
       ELSE /\ ret' = IF IsAvailable(free_memory, total_memory)
                      THEN AppendDevice(ret, i)
                      ELSE ret
            /\ pc' = "detach"
            /\ UNCHANGED <<cache, history>>
    /\ UNCHANGED <<cuda, libIdx, result, num_gpu, i, retId, error, free_memory,
                   total_memory, context, device, drvVars, callNo, invoked,
                   loaded, failed, queried, visited, padVars>>

\* Line 122: cuda.cuCtxDetach(context), then the next iteration.
CtxDetach ==
    /\ pc = "detach"
    /\ liveCtx' = liveCtx \ {context}
    /\ invoked' = invoked \cup {"cuCtxDetach"}
    /\ i' = i + 1
    /\ pc' = "loop"
    /\ UNCHANGED <<cache, cuda, libIdx, result, num_gpu, ret, retId, error,
                   free_memory, total_memory, context, device, callNo,
                   history, loaded, failed, queried, visited, padVars>>

Next ==
    \/ CallHit
    \/ CallMiss
    \/ LoadLib
    \/ CheckCuda
    \/ CuInit
    \/ DeviceGetCount
    \/ LoopHead
    \/ DeviceGet1
    \/ DeviceGet2
    \/ CtxCreate
    \/ MemGetInfo
    \/ CheckFree
    \/ CtxDetach

Spec == Init /\ [][Next]_vars

\* ------------------------------------------------------ pad / collate_fn

Tokens == {1, 2}

RECURSIVE SeqsUpTo(_, _)
\* All sequences over S of length at most n.
SeqsUpTo(S, n) ==
    IF n = 0 THEN {<<>>}
    ELSE LET shorter == SeqsUpTo(S, n - 1)
         IN  shorter \cup {Append(s, x) : s \in {t \in shorter : Len(t) = n - 1}, x \in S}

Rows == SeqsUpTo(Tokens, MaxRowLen)
Batches == SeqsUpTo(Rows, MaxBatch)

RECURSIVE MaxOf(_)
MaxOf(s) ==
    IF Len(s) = 1 THEN s[1]
    ELSE LET m == MaxOf(Tail(s)) IN IF s[1] >= m THEN s[1] ELSE m

\* utils.py:150  lengths = [len(row) for row in batch]
RowLengths(b) == [k \in 1..Len(b) |-> Len(b[k])]

RECURSIVE InsertByLenDesc(_, _)
\* Stable insertion for sorted(..., key=len, reverse=True): x goes behind
\* every row that is at least as long.
InsertByLenDesc(s, x) ==
    IF s = <<>> THEN <<x>>
    ELSE IF Len(s[1]) >= Len(x)
         THEN <<s[1]>> \o InsertByLenDesc(Tail(s), x)
         ELSE <<x>> \o s

RECURSIVE SortedByLenDesc(_)
\* utils.py:164  sorted(batch, key=lambda row: len(row[sort_key]), reverse=True)
SortedByLenDesc(b) ==
    IF b = <<>> THEN <<>>
    ELSE InsertByLenDesc(SortedByLenDesc(SubSeq(b, 1, Len(b) - 1)), b[Len(b)])

\* utils.py:151-156  every row followed by max_len - len(row) PADDING_INDEX.
PadRows(b) ==
    LET max_len == MaxOf(RowLengths(b))
    IN  [k \in 1..Len(b) |-> b[k] \o [j \in 1..(max_len - Len(b[k])) |-> PADDING_INDEX]]

\* utils.py:157  the lengths returned by pad, in the order of the batch.
PadLengths(b) == RowLengths(b)

InitPad ==
    /\ pc = "idle"
    /\ cache = <<>>
    /\ cuda = NoLib
    /\ libIdx = 1
    /\ result = CUDA_SUCCESS
    /\ num_gpu = 0
    /\ i = 0
    /\ ret = <<>>
    /\ retId = 0
    /\ error = NULL
    /\ free_memory = 0
    /\ total_memory = 0
    /\ context = 0
    /\ device = 0
    /\ liveCtx = {}
    /\ callNo = 0
    /\ history = <<>>
    /\ invoked = {}
    /\ loaded = <<>>
    /\ failed = {}
    /\ queried = {}
    /\ visited = <<>>
    /\ batch \in Batches
    /\ padded = <<>>
    /\ lengths = <<>>
    /\ padpc = "ready"

\* pad(batch); max() of an empty list raises ValueError.
PadCall ==
    /\ padpc = "ready"
    /\ IF batch = <<>>
       THEN /\ padpc' = "raised"
            /\ UNCHANGED <<padded, lengths>>
       ELSE /\ padded' = PadRows(batch)
            /\ lengths' = PadLengths(batch)
            /\ padpc' = "padded"
    /\ UNCHANGED <<batch, progVars, drvVars, obsVars>>

\* collate_fn, lines 163-165, for the column that is both input_key and
\* sort_key: the optional sort, then preprocess=pad on that column.
CollateCall ==
    /\ padpc = "ready"
    /\ \E sort_key \in BOOLEAN :
         LET b == IF sort_key THEN SortedByLenDesc(batch) ELSE batch
         IN  IF b = <<>>
             THEN /\ padpc' = "raised"
                  /\ UNCHANGED <<padded, lengths>>
             ELSE /\ padded' = PadRows(b)
                  /\ lengths' = PadLengths(b)
                  /\ padpc' = IF sort_key THEN "collated_sorted" ELSE "collated"
    /\ UNCHANGED <<batch, progVars, drvVars, obsVars>>

NextPad ==
    \/ PadCall
    \/ CollateCall

SpecPad == InitPad /\ [][NextPad]_vars

\* ------------------------------------------------------------ properties

Last == history[Len(history)]
CallOver == pc = "idle" /\ history # <<>>
Returned == CallOver /\ Last.outcome = "returned"

IsStrictlyAscending(s) == \A k \in 1..(Len(s) - 1) : s[k] < s[k + 1]

\* The device-count query of the current call failed: a native call failed
\* (cuGetErrorString was consulted) but no per-device call did.
CountFailed ==
    /\ {"cuDeviceGetCount", "cuGetErrorString"} \subseteq invoked
    /\ failed = {}

\* C1: every index in the result list (while it is built and when it is
\* returned) is a device whose memory query succeeded in this scan with
\* free/total strictly above 98%; a device reported exactly 98% free is
\* never in the list.
C1_AboveThreshold ==
    /\ \A k \in 1..Len(ret) :
         \E q \in queried : q[1] = ret[k] /\ q[3] > 0 /\ 100 * q[2] > 98 * q[3]
    /\ \A q \in queried : (q[3] > 0 /\ 100 * q[2] = 98 * q[3]) => q[1] \notin Range(ret)
    /\ Returned => Last.val = ret

C1_Witness ==
    /\ Returned
    /\ Last.native
    /\ Last.val # <<>>
    /\ \E q \in queried : q[2] = 49 /\ q[3] = 50 /\ q[1] \notin Range(Last.val)

\* C2: once a scan in which some per-device call failed is over, the call
\* has returned exactly the devices without a failed call whose reported
\* free/total is above 98%.
C2_FailuresIsolated ==
    (CallOver /\ failed # {}) =>
        /\ Last.outcome = "returned"
        /\ Range(Last.val) =
             {j \in 0..(num_gpu - 1) :
                 /\ j \notin failed
                 /\ \E q \in queried : q[1] = j /\ q[3] > 0 /\ 100 * q[2] > 98 * q[3]}

\* C3: only the first call loads the library or invokes native functions;
\* every later call returns the object the first call returned.
C3_Memoized ==
    /\ callNo >= 2 => (invoked = {} /\ loaded = <<>>)
    /\ \A k \in 2..Len(history) :
         /\ history[1].outcome = "returned"
         /\ history[k].outcome = "returned"
         /\ ~history[k].native
         /\ history[k].id = history[1].id
         /\ history[k].val = history[1].val

\* C4: the candidate names are tried in their fixed order up to the first
\* that loads; when none loads no native function is invoked and the call
\* returns the empty list.
C4_NoLibrary ==
    /\ Len(loaded) <= Len(LibNames)
    /\ \A k \in 1..Len(loaded) : loaded[k] = LibNames[k]
    /\ (loaded # <<>> /\ cuda # NoLib) => cuda = loaded[Len(loaded)]
    /\ cuda = NoLib => invoked = {}
    /\ (CallOver /\ cuda = NoLib /\ loaded = LibNames) =>
          /\ Last.outcome = "returned"
          /\ Last.val = <<>>
          /\ ~Last.native

C4_Witness ==
    /\ CallOver
    /\ cuda = NoLib
    /\ loaded = LibNames
    /\ Last.outcome = "returned"
    /\ Last.val = <<>>

\* C5: every call of cuda_devices() ends by returning a list; none ends
\* with an exception.
C5_NeverRaises == \A k \in 1..Len(history) : history[k].outcome = "returned"

\* C6: when cuInit reported a non-success status, no device is scanned and
\* the result list stays empty.
C6_InitFailureStops ==
    result # CUDA_SUCCESS =>
        /\ visited = <<>>
        /\ invoked \cap DeviceFuncs = {}
        /\ ret = <<>>

\* C7: when cuDeviceGetCount reported a non-success status, no per-device
\* native call is made and the call returns the empty list.
C7_CountFailureEmpty ==
    CountFailed =>
        /\ invoked \cap DeviceFuncs = {}
        /\ visited = <<>>
        /\ CallOver => (Last.outcome = "returned" /\ Last.val = <<>>)

\* C8: the result list is at all times strictly ascending (hence free of
\* duplicates) and within 0..count-1, and the devices are visited one at a
\* time in the order 0, 1, ..., count-1.
C8_AscendingOrder ==
    /\ IsStrictlyAscending(ret)
    /\ \A k \in 1..Len(ret) : ret[k] \in 0..(num_gpu - 1) /\ ret[k] \in Range(visited)
    /\ \A k \in 1..Len(visited) : visited[k] = k - 1
    /\ Len(visited) <= num_gpu
    /\ Returned => Last.val = ret

C8_Witness ==
    /\ Returned
    /\ Last.native
    /\ num_gpu = 4
    /\ Last.val = <<0, 3>>

\* C9: pad returns rows right-padded with PADDING_INDEX to the longest
\* length, lengths[k] is the unpadded length of returned row k, and the
\* lengths are in decreasing order.
C9_PadSortedDecreasing ==
    padpc = "padded" =>
        /\ Len(padded) = Len(batch)
        /\ Len(lengths) = Len(batch)
        /\ \A k \in 1..Len(padded) :
             /\ Len(padded[k]) = MaxOf(RowLengths(batch))
             /\ lengths[k] <= Len(padded[k])
             /\ \A j \in (lengths[k] + 1)..Len(padded[k]) : padded[k][j] = PADDING_INDEX
             /\ \E r \in 1..Len(batch) :
                  /\ Len(batch[r]) = lengths[k]
                  /\ SubSeq(padded[k], 1, lengths[k]) = batch[r]
        /\ \A k \in 1..(Len(lengths) - 1) : lengths[k] >= lengths[k + 1]

\* C10: a context created for a device is detached before the loop moves
\* on and before the function returns, so at most one context is live at
\* any time and none is live between iterations or after a return.
C10_ContextReleased ==
    /\ Cardinality(liveCtx) <= 1
    /\ pc \in {"loop", "get1", "get2", "ctx"} => liveCtx = {}
    /\ Returned => liveCtx = {}

====
